---- MODULE Spec2Model ----
(***************************************************************************)
(* A model of process_extensions.py: the MS Forms extension request        *)
(* processor.  Text is modelled as sequences of one-character strings, so  *)
(* that strip, strptime and the filename sanitiser act on characters.      *)
(***************************************************************************)
EXTENDS Integers, Sequences, FiniteSets, TLC

VARIABLES
    \* a call of one function, for the properties of the pure functions; in a
    \* run of main() after a run, what the first run ended with
    arg,            \* its argument
    result,         \* what it returned
    called,         \* whether it was called yet
    \* a run of main()
    pc,             \* where main() is
    args,           \* the command line: input_file, dry_run, no_adjust
    file_lines,     \* the input (a file, or pasted): None when missing, or its lines, each split into fields
    parsed_records, \* what process_extension_data returned as records
    records,        \* main's records, reassigned by each stage
    errors,         \* the ParseErrors of process_extension_data
    table_data,     \* the TableData of process_extension_data, or None
    file_info,      \* the statistics create_output_files returned
    io_errors,      \* the error strings create_output_files returned
    processed_copy, \* what write_processed_copy returned: [path, error]
    failures_path,  \* what write_failure_report returned
    summary_text,   \* what generate_summary returned
    exit_code,      \* main's return value, None while it runs
    fs,             \* the files the run wrote, and the CSV writes in the order they were made
    faults          \* the writes that raised OSError in this run

fnVars == <<arg, result, called>>

mainVars == <<pc, args, file_lines, parsed_records, records, errors, table_data,
              file_info, io_errors, processed_copy, failures_path, summary_text,
              exit_code, fs, faults>>

vars == <<arg, result, called, pc, args, file_lines, parsed_records, records,
          errors, table_data, file_info, io_errors, processed_copy, failures_path,
          summary_text, exit_code, fs, faults>>

(***************************************************************************)
(* Optional[...] values: None, or a value.                                 *)
(***************************************************************************)
None == <<>>
Some(x) == <<x>>
IsSome(o) == Len(o) = 1
Get(o) == o[1]

(***************************************************************************)
(* Characters and str methods.                                             *)
(***************************************************************************)
Digits == {"0", "1", "2", "3", "4", "5", "6", "7", "8", "9"}
NonZeroDigits == Digits \ {"0"}
Whitespace == {" "}

DigitVal(c) ==
    CASE c = "0" -> 0 [] c = "1" -> 1 [] c = "2" -> 2 [] c = "3" -> 3
      [] c = "4" -> 4 [] c = "5" -> 5 [] c = "6" -> 6 [] c = "7" -> 7
      [] c = "8" -> 8 [] c = "9" -> 9

DigitChar(n) ==
    CASE n = 0 -> "0" [] n = 1 -> "1" [] n = 2 -> "2" [] n = 3 -> "3"
      [] n = 4 -> "4" [] n = 5 -> "5" [] n = 6 -> "6" [] n = 7 -> "7"
      [] n = 8 -> "8" [] n = 9 -> "9"

\* the elements of a list
Range(s) == {s[i] : i \in 1..Len(s)}

\* s[i], or "" past the end of s
At(s, i) == IF i >= 1 /\ i <= Len(s) THEN s[i] ELSE ""

RECURSIVE lstrip(_)
lstrip(s) ==
    IF s # <<>> /\ Head(s) \in Whitespace THEN lstrip(Tail(s)) ELSE s

RECURSIVE rstrip(_)
rstrip(s) ==
    IF s # <<>> /\ s[Len(s)] \in Whitespace
    THEN rstrip(SubSeq(s, 1, Len(s) - 1))
    ELSE s

\* str.strip()
strip(s) == rstrip(lstrip(s))

\* int(text) for the text a strptime group matched (digits, maybe after a space)
RECURSIVE IntOf(_)
IntOf(s) ==
    IF s = <<>> THEN 0
    ELSE IF s[Len(s)] \in Digits
         THEN 10 * IntOf(SubSeq(s, 1, Len(s) - 1)) + DigitVal(s[Len(s)])
         ELSE IntOf(SubSeq(s, 1, Len(s) - 1))

(***************************************************************************)
(* datetime: a date is [year, month, day]; the time of day is always       *)
(* midnight in this program.                                               *)
(***************************************************************************)
MINYEAR == 1
MAXYEAR == 9999

is_leap(y) == (y % 4 = 0) /\ ((y % 100 # 0) \/ (y % 400 = 0))

days_in_month(y, m) ==
    IF m = 2 THEN (IF is_leap(y) THEN 29 ELSE 28)
    ELSE IF m \in {4, 6, 9, 11} THEN 30 ELSE 31

days_before_year(y) ==
    (y - 1) * 365 + ((y - 1) \div 4) - ((y - 1) \div 100) + ((y - 1) \div 400)

RECURSIVE days_before_month(_, _)
days_before_month(y, m) ==
    IF m = 1 THEN 0 ELSE days_before_month(y, m - 1) + days_in_month(y, m - 1)

toordinal(date) ==
    days_before_year(date.year) + days_before_month(date.year, date.month) + date.day

\* datetime.weekday(): Monday is 0, Sunday is 6
weekday(date) == (toordinal(date) + 6) % 7

IsValidDate(y, m, d) ==
    /\ y >= MINYEAR /\ y <= MAXYEAR
    /\ m \in 1..12
    /\ d >= 1 /\ d <= days_in_month(y, m)

NextDay(date) ==
    IF date.day < days_in_month(date.year, date.month)
    THEN [date EXCEPT !.day = date.day + 1]
    ELSE IF date.month < 12
         THEN [year |-> date.year, month |-> date.month + 1, day |-> 1]
         ELSE [year |-> date.year + 1, month |-> 1, day |-> 1]

\* date + timedelta(days=k); the year runs past MAXYEAR where Python raises
RECURSIVE AddDays(_, _)
AddDays(date, k) == IF k = 0 THEN date ELSE AddDays(NextDay(date), k - 1)

\* datetime comparison
DateLT(a, b) == toordinal(a) < toordinal(b)
DateLE(a, b) == toordinal(a) <= toordinal(b)

(***************************************************************************)
(* parse_date: datetime.strptime(date_str.strip(), "%m/%d/%Y"), None on     *)
(* ValueError.  strptime matches the regular expression                    *)
(*   (1[0-2]|0[1-9]|[1-9])/(3[0-1]|[1-2]\d|0[1-9]|[1-9]| [1-9])/(\d\d\d\d)  *)
(* at the start of the text, refuses text with unconverted data left, and  *)
(* refuses what is no calendar date.                                       *)
(***************************************************************************)
\* {e} when the alternative matched, {} when it did not
When(matched, e) == IF matched THEN {e} ELSE {}

\* where a match of %m that starts at i can end (the index after it)
MonthEnds(s, i) ==
    When(At(s, i) = "1" /\ At(s, i + 1) \in {"0", "1", "2"}, i + 2)
    \cup When(At(s, i) = "0" /\ At(s, i + 1) \in NonZeroDigits, i + 2)
    \cup When(At(s, i) \in NonZeroDigits, i + 1)

\* where a match of %d that starts at i can end
DayEnds(s, i) ==
    When(At(s, i) = "3" /\ At(s, i + 1) \in {"0", "1"}, i + 2)
    \cup When(At(s, i) \in {"1", "2"} /\ At(s, i + 1) \in Digits, i + 2)
    \cup When(At(s, i) = "0" /\ At(s, i + 1) \in NonZeroDigits, i + 2)
    \cup When(At(s, i) \in NonZeroDigits, i + 1)
    \cup When(At(s, i) = " " /\ At(s, i + 1) \in NonZeroDigits, i + 2)

\* the matches <<j, k>> of the whole format: the month ends before j, the day before k
FormatMatches(s) ==
    {jk \in MonthEnds(s, 1) \X (1..(Len(s) + 1)) :
        /\ At(s, jk[1]) = "/"
        /\ jk[2] \in DayEnds(s, jk[1] + 1)
        /\ At(s, jk[2]) = "/"
        /\ \A n \in 1..4 : At(s, jk[2] + n) \in Digits}

strptime(s) ==
    IF FormatMatches(s) = {} THEN None
    ELSE LET jk == CHOOSE m \in FormatMatches(s) : TRUE
             month == IntOf(SubSeq(s, 1, jk[1] - 1))
             day == IntOf(SubSeq(s, jk[1] + 1, jk[2] - 1))
             year == IntOf(SubSeq(s, jk[2] + 1, jk[2] + 4))
         IN  IF Len(s) # jk[2] + 4 THEN None          \* unconverted data remains
             ELSE IF ~IsValidDate(year, month, day) THEN None
             ELSE Some([year |-> year, month |-> month, day |-> day])

parse_date_nostrip(date_str) == strptime(date_str)

parse_date(date_str) == strptime(strip(date_str))

(***************************************************************************)
(* get_next_sunday and format_date.                                        *)
(***************************************************************************)
\* date + timedelta raises OverflowError when the sum is after 12/31/MAXYEAR
get_next_sunday_raises(date) ==
    LET days_until_sunday == (6 - weekday(date)) % 7
    IN  days_until_sunday # 0 /\ AddDays(date, days_until_sunday).year > MAXYEAR

get_next_sunday_backwards(date) ==
    LET days_until_sunday == (6 - weekday(date)) % 7
    IN  IF days_until_sunday = 0 THEN date
        ELSE AddDays(date, days_until_sunday - 1)

get_next_sunday(date) ==
    LET days_until_sunday == (6 - weekday(date)) % 7
    IN  IF days_until_sunday = 0 THEN date
        ELSE AddDays(date, days_until_sunday)

\* n as decimal digits, most significant first
RECURSIVE DigitsOf(_)
DigitsOf(n) ==
    IF n < 10 THEN <<DigitChar(n)>>
    ELSE Append(DigitsOf(n \div 10), DigitChar(n % 10))

\* %m and %d: two digits, zero-padded
TwoDigits(n) == <<DigitChar(n \div 10), DigitChar(n % 10)>>

\* strftime("%m/%d/%Y"); the C library of this build does not pad the year
format_date(date) ==
    TwoDigits(date.month) \o <<"/">> \o TwoDigits(date.day) \o <<"/">>
        \o DigitsOf(date.year)

(***************************************************************************)
(* Text order: Python compares str by code point.                          *)
(***************************************************************************)
CodePointOrder ==
    <<" ", "!", "*", "-", "/", "0", "1", "2", "3", "4", "5", "6", "7", "8", "9",
      "@", "A", "B", "H", "N", "W", "_", "a", "b", "h", "n", "w", "x">>

Ord(c) == CHOOSE i \in 1..Len(CodePointOrder) : CodePointOrder[i] = c

RECURSIVE StrLT(_, _)
StrLT(a, b) ==
    IF b = <<>> THEN FALSE
    ELSE IF a = <<>> THEN TRUE
    ELSE IF Head(a) = Head(b) THEN StrLT(Tail(a), Tail(b))
    ELSE Ord(Head(a)) < Ord(Head(b))

StrLE(a, b) == a = b \/ StrLT(a, b)

(***************************************************************************)
(* ExtensionRecord.                                                        *)
(***************************************************************************)
ExtensionRecord(email, name, assignment, requested_date, row_num) ==
    [email |-> email, name |-> name, assignment |-> assignment,
     requested_date |-> requested_date, row_num |-> row_num,
     original_date |-> None, due_date |-> None]

\* a record that takes the adjusted date for its original date
with_adjusted_date_swapped(self, adjusted) ==
    [self EXCEPT !.original_date = Some(adjusted), !.due_date = Some(adjusted)]

with_adjusted_date(self, adjusted) ==
    [self EXCEPT !.original_date = Some(self.requested_date),
                 !.due_date = Some(adjusted)]

Key(record) == <<record.assignment, record.email>>

(***************************************************************************)
(* deduplicate_records.  The dict is a sequence of records in the order    *)
(* their keys were inserted, which is the order list(dedup.values()) has.  *)
(***************************************************************************)
\* dedup[key] = record for a key the dict has
DictReplace(dedup, record) ==
    [i \in 1..Len(dedup) |->
        IF Key(dedup[i]) = Key(record) THEN record ELSE dedup[i]]

DictGet(dedup, key) ==
    dedup[CHOOSE i \in 1..Len(dedup) : Key(dedup[i]) = key]

DictHas(dedup, key) == \E i \in 1..Len(dedup) : Key(dedup[i]) = key

\* a turn that never replaces the record the dict holds
DedupStepKeepFirst(dedup, record) ==
    IF ~DictHas(dedup, Key(record)) THEN Append(dedup, record) ELSE dedup

\* a turn that also replaces the record the dict holds by one of the same date
DedupStepKeepLast(dedup, record) ==
    IF ~DictHas(dedup, Key(record)) THEN Append(dedup, record)
    ELSE IF DateLE(DictGet(dedup, Key(record)).requested_date, record.requested_date)
         THEN DictReplace(dedup, record)
         ELSE dedup

\* one turn of the loop, lines 425-433
DedupStep(dedup, record) ==
    IF ~DictHas(dedup, Key(record)) THEN Append(dedup, record)
    ELSE IF DateLT(DictGet(dedup, Key(record)).requested_date, record.requested_date)
         THEN DictReplace(dedup, record)
         ELSE dedup

RECURSIVE DedupLoop(_, _)
DedupLoop(dedup, rest) ==
    IF rest = <<>> THEN dedup
    ELSE DedupLoop(DedupStep(dedup, Head(rest)), Tail(rest))

deduplicate_records(recs) == DedupLoop(<<>>, recs)

(***************************************************************************)
(* adjust_dates, and the --no-adjust branch of main.                       *)
(***************************************************************************)
adjust_dates_raises(recs) ==
    \E i \in 1..Len(recs) : get_next_sunday_raises(recs[i].requested_date)

adjust_dates(recs) ==
    [i \in 1..Len(recs) |->
        with_adjusted_date(recs[i], get_next_sunday(recs[i].requested_date))]

\* lines 1016-1027
no_adjust_records(recs) ==
    [i \in 1..Len(recs) |->
        [recs[i] EXCEPT !.original_date = Some(recs[i].requested_date),
                        !.due_date = Some(recs[i].requested_date)]]

(***************************************************************************)
(* ColumnConfig.  A column name is a text of one element: the model never  *)
(* looks inside a name, only around it (whitespace, the byte-order mark).  *)
(***************************************************************************)
BOM == "BOM"

DEFAULT_COLUMNS ==
    [email |-> <<"Email">>,
     name |-> <<"Name">>,
     assignment |-> <<"Which assignment due date do you want to change?">>,
     date |-> <<"What would you like to new date to be change too?">>,
     done |-> <<"DONE?">>]

required(columns) ==
    <<columns.email, columns.name, columns.assignment, columns.date>>

(***************************************************************************)
(* ParseError and TableData.                                               *)
(***************************************************************************)
ParseError(message, row, line) == [message |-> message, row |-> row, line |-> line]

TableData(header, col_map) ==
    [header |-> header, rows |-> <<>>, col_map |-> col_map, all_assignments |-> <<>>]

(***************************************************************************)
(* sorted() of a set of texts.                                             *)
(***************************************************************************)
MinText(S) == CHOOSE a \in S : \A b \in S : StrLE(a, b)

RECURSIVE SortedTexts(_)
SortedTexts(S) ==
    IF S = {} THEN <<>>
    ELSE <<MinText(S)>> \o SortedTexts(S \ {MinText(S)})

(***************************************************************************)
(* process_extension_data.  A line is the list of fields csv.reader makes  *)
(* of it with the detected delimiter.                                      *)
(***************************************************************************)
RECURSIVE lstrip_bom(_)
lstrip_bom(s) == IF s # <<>> /\ Head(s) = BOM THEN lstrip_bom(Tail(s)) ELSE s

\* line 299
HeaderOf(raw_header) ==
    [i \in 1..Len(raw_header) |-> lstrip_bom(strip(raw_header[i]))]

\* lines 302-304: a later column of the same name replaces the earlier one;
\* indices are 0-based
ColMap(header) ==
    [col \in Range(header) |->
        (CHOOSE i \in 1..Len(header) :
            header[i] = col /\ \A j \in 1..Len(header) : header[j] = col => j <= i) - 1]

\* line 307
RECURSIVE SelectSeq2(_, _)
SelectSeq2(s, S) ==
    IF s = <<>> THEN <<>>
    ELSE IF Head(s) \in S THEN <<Head(s)>> \o SelectSeq2(Tail(s), S)
    ELSE SelectSeq2(Tail(s), S)

\* a check that names only the first missing column
MissingColsFirst(columns, col_map) ==
    SubSeq(SelectSeq2(required(columns), Range(required(columns)) \ DOMAIN col_map), 1, 1)

MissingCols(columns, col_map) ==
    SelectSeq2(required(columns), Range(required(columns)) \ DOMAIN col_map)

\* fields[idx].strip() if idx < len(fields) else ""
FieldAt(fields, idx) == IF idx < Len(fields) THEN strip(fields[idx + 1]) ELSE <<>>

\* line 324
IsBlankRow(fields) == \A i \in 1..Len(fields) : strip(fields[i]) = <<>>

\* lines 327-328
PadRow(fields, n) ==
    IF Len(fields) < n THEN fields \o [i \in 1..(n - Len(fields)) |-> <<>>] ELSE fields

\* a check that takes no row as handled
AlreadyDoneNever(fields, done_col) == FALSE

\* lines 340-342
AlreadyDone(fields, done_col) ==
    /\ IsSome(done_col)
    /\ Get(done_col) < Len(fields)
    /\ strip(fields[Get(done_col) + 1]) = <<"*">>

\* a check that stops at the first blank field
MissingFieldsFirst(email, name, assignment, requested_date_str) ==
    IF email = <<>> THEN <<"Email">>
    ELSE IF name = <<>> THEN <<"Name">>
    ELSE IF assignment = <<>> THEN <<"Assignment">>
    ELSE IF requested_date_str = <<>> THEN <<"RequestedDate">>
    ELSE <<>>

\* lines 368-376
MissingFields(email, name, assignment, requested_date_str) ==
    (IF email = <<>> THEN <<"Email">> ELSE <<>>)
    \o (IF name = <<>> THEN <<"Name">> ELSE <<>>)
    \o (IF assignment = <<>> THEN <<"Assignment">> ELSE <<>>)
    \o (IF requested_date_str = <<>> THEN <<"RequestedDate">> ELSE <<>>)

\* a turn that passes over a row whose date cannot be parsed
ProcessRowSilent(acc, row_num, raw_fields, n_header, col_map, columns) ==
    IF IsBlankRow(raw_fields) THEN acc
    ELSE
    LET fields == PadRow(raw_fields, n_header)
        done_col == IF columns.done \in DOMAIN col_map
                    THEN Some(col_map[columns.done]) ELSE None
        email == FieldAt(fields, col_map[columns.email])
        name == FieldAt(fields, col_map[columns.name])
        assignment == FieldAt(fields, col_map[columns.assignment])
        requested_date_str == FieldAt(fields, col_map[columns.date])
        missing == MissingFields(email, name, assignment, requested_date_str)
        requested_date == parse_date(requested_date_str)
        kept == [acc EXCEPT
                    !.rows = Append(@, [row_num |-> row_num, fields |-> fields]),
                    !.all_assignments =
                        IF assignment # <<>> THEN @ \cup {assignment} ELSE @]
    IN  IF AlreadyDone(fields, done_col) THEN kept
        ELSE IF missing # <<>>
        THEN [kept EXCEPT !.errors = Append(@,
                 ParseError([kind |-> "Missing fields", detail |-> missing],
                            Some(row_num), Some(fields)))]
        ELSE IF ~IsSome(requested_date) THEN kept
        ELSE [kept EXCEPT !.records = Append(@,
                 ExtensionRecord(email, name, assignment, Get(requested_date),
                                 row_num))]

\* one turn of the loop over the data rows, lines 323-408; acc holds records,
\* errors, rows and all_assignments
ProcessRow(acc, row_num, raw_fields, n_header, col_map, columns) ==
    IF IsBlankRow(raw_fields) THEN acc
    ELSE
    LET fields == PadRow(raw_fields, n_header)
        done_col == IF columns.done \in DOMAIN col_map
                    THEN Some(col_map[columns.done]) ELSE None
        email == FieldAt(fields, col_map[columns.email])
        name == FieldAt(fields, col_map[columns.name])
        assignment == FieldAt(fields, col_map[columns.assignment])
        requested_date_str == FieldAt(fields, col_map[columns.date])
        missing == MissingFields(email, name, assignment, requested_date_str)
        requested_date == parse_date(requested_date_str)
        kept == [acc EXCEPT
                    !.rows = Append(@, [row_num |-> row_num, fields |-> fields]),
                    !.all_assignments =
                        IF assignment # <<>> THEN @ \cup {assignment} ELSE @]
    IN  IF AlreadyDone(fields, done_col) THEN kept
        ELSE IF missing # <<>>
        THEN [kept EXCEPT !.errors = Append(@,
                 ParseError([kind |-> "Missing fields", detail |-> missing],
                            Some(row_num), Some(fields)))]
        ELSE IF ~IsSome(requested_date)
        THEN [kept EXCEPT !.errors = Append(@,
                 ParseError([kind |-> "Invalid date format",
                             detail |-> requested_date_str],
                            Some(row_num), Some(fields)))]
        ELSE [kept EXCEPT !.records = Append(@,
                 ExtensionRecord(email, name, assignment, Get(requested_date),
                                 row_num))]

RECURSIVE ProcessRows(_, _, _, _, _, _)
ProcessRows(acc, row_num, rest, n_header, col_map, columns) ==
    IF rest = <<>> THEN acc
    ELSE ProcessRows(ProcessRow(acc, row_num, Head(rest), n_header, col_map, columns),
                     row_num + 1, Tail(rest), n_header, col_map, columns)

process_extension_data(data_lines, columns) ==
    IF data_lines = <<>>
    THEN [records |-> <<>>, errors |-> <<>>, table_data |-> None]
    ELSE
    LET raw_header == Head(data_lines)
        col_map == ColMap(HeaderOf(raw_header))
        missing_cols == MissingCols(columns, col_map)
        acc == ProcessRows([records |-> <<>>, errors |-> <<>>, rows |-> <<>>,
                            all_assignments |-> {}],
                           2, Tail(data_lines), Len(raw_header), col_map, columns)
    IN  IF missing_cols # <<>>
        THEN [records |-> <<>>,
              errors |-> <<ParseError([kind |-> "Missing required columns",
                                       detail |-> missing_cols], None, None)>>,
              table_data |-> None]
        ELSE [records |-> acc.records,
              errors |-> acc.errors,
              table_data |-> Some([TableData(raw_header, col_map) EXCEPT
                  !.rows = acc.rows,
                  !.all_assignments = SortedTexts(acc.all_assignments)])]

(***************************************************************************)
(* sanitize_filename.                                                      *)
(***************************************************************************)
UpperCase == <<"A", "B", "H", "N", "W">>
LowerCase == <<"a", "b", "h", "n", "w">>

\* str.lower(), one character
Lower(c) ==
    IF \E i \in 1..Len(UpperCase) : UpperCase[i] = c
    THEN LowerCase[CHOOSE i \in 1..Len(UpperCase) : UpperCase[i] = c]
    ELSE c

FilenameChars == Range(LowerCase) \cup {"x"} \cup Digits

\* a substitution that takes every character for a run of its own
DropNothing(s) == s

RECURSIVE DropRun(_)
DropRun(s) ==
    IF s # <<>> /\ Head(s) \notin FilenameChars THEN DropRun(Tail(s)) ELSE s

\* re.sub(r"[^a-z0-9]+", "_", s)
RECURSIVE SubRuns(_)
SubRuns(s) ==
    IF s = <<>> THEN <<>>
    ELSE IF Head(s) \in FilenameChars THEN <<Head(s)>> \o SubRuns(Tail(s))
    ELSE <<"_">> \o SubRuns(DropRun(Tail(s)))

RECURSIVE StripUnderscores(_)
StripUnderscores(s) ==
    IF s # <<>> /\ Head(s) = "_" THEN StripUnderscores(Tail(s))
    ELSE IF s # <<>> /\ s[Len(s)] = "_"
    THEN StripUnderscores(SubSeq(s, 1, Len(s) - 1))
    ELSE s

sanitize_filename(text) ==
    StripUnderscores(SubRuns([i \in 1..Len(text) |-> Lower(text[i])]))

(***************************************************************************)
(* create_output_files.  mkdir_ok says whether the directory can be made,  *)
(* failing names the assignments whose file cannot be opened for writing.  *)
(* It returns file_info and io_errors, and does the writes in `writes`.    *)
(***************************************************************************)
NotApplicable == <<"N", "/", "A">>

\* lines 516-517
OutputFilename(assignment) == sanitize_filename(assignment) \o <<"_extensions.csv">>

\* a sort that leaves the records in the order they came
InsertInOrder(sorted, record) == Append(sorted, record)

\* list.sort(key=email): a stable insertion sort
RECURSIVE InsertByEmail(_, _)
InsertByEmail(sorted, record) ==
    IF sorted = <<>> THEN <<record>>
    ELSE IF StrLT(record.email, Head(sorted).email)
    THEN <<record>> \o sorted
    ELSE <<Head(sorted)>> \o InsertByEmail(Tail(sorted), record)

RECURSIVE SortByEmail(_)
SortByEmail(recs) ==
    IF recs = <<>> THEN <<>>
    ELSE InsertByEmail(SortByEmail(SubSeq(recs, 1, Len(recs) - 1)), recs[Len(recs)])

\* lines 531-541: one row of the CSV
CsvRow(record) ==
    LET due_date_str == IF IsSome(record.due_date)
                        THEN format_date(Get(record.due_date)) ELSE <<>>
    IN  <<record.email, record.name, record.assignment, due_date_str,
          record.email \o <<" - ">> \o record.name \o <<" - ">>
              \o record.assignment \o <<" - ">> \o due_date_str>>

CsvContents(assignment_records) ==
    [header |-> <<"Email", "Name", "Assignment", "DueDate", "RECORD">>,
     rows |-> [i \in 1..Len(assignment_records) |-> CsvRow(assignment_records[i])]]

MinDate(S) == CHOOSE d \in S : \A e \in S : DateLE(d, e)
MaxDate(S) == CHOOSE d \in S : \A e \in S : DateLE(e, d)

\* lines 551-571
FileInfo(assignment, assignment_records) ==
    LET dates == {Get(r.due_date) : r \in {q \in Range(assignment_records) : IsSome(q.due_date)}}
    IN  [assignment |-> assignment,
         filename |-> OutputFilename(assignment),
         num_students |-> Len(assignment_records),
         earliest_date |-> IF dates # {} THEN format_date(MinDate(dates))
                           ELSE NotApplicable,
         latest_date |-> IF dates # {} THEN format_date(MaxDate(dates))
                         ELSE NotApplicable]

\* a grouping that forgets the assignments without a record
GroupNamesOfRecords(recs, all_assignments) == {r.assignment : r \in Range(recs)}

\* lines 503-510: the keys of by_assignment
GroupNames(recs, all_assignments) ==
    {r.assignment : r \in Range(recs)}
        \cup (IF IsSome(all_assignments) THEN Range(Get(all_assignments)) ELSE {})

GroupOf(recs, assignment) == SelectSeq(recs, LAMBDA r : r.assignment = assignment)

\* a turn that gives up once a file could not be written
OutputGroupAbort(acc, assignment, recs, dry_run, failing) ==
    LET assignment_records == SortByEmail(GroupOf(recs, assignment))
    IN  IF acc.io_errors # <<>> THEN acc
        ELSE IF ~dry_run /\ assignment \in failing
        THEN [acc EXCEPT !.io_errors = Append(@,
                 [kind |-> "Failed to write", path |-> OutputFilename(assignment)])]
        ELSE [acc EXCEPT
                 !.writes = IF dry_run THEN @
                            ELSE Append(@, [name |-> OutputFilename(assignment),
                                            contents |-> CsvContents(assignment_records)]),
                 !.file_info = Append(@, FileInfo(assignment, assignment_records))]

\* one turn of the loop over the groups, lines 514-571
OutputGroup(acc, assignment, recs, dry_run, failing) ==
    LET assignment_records == SortByEmail(GroupOf(recs, assignment))
    IN  IF ~dry_run /\ assignment \in failing
        THEN [acc EXCEPT !.io_errors = Append(@,
                 [kind |-> "Failed to write", path |-> OutputFilename(assignment)])]
        ELSE [acc EXCEPT
                 !.writes = IF dry_run THEN @
                            ELSE Append(@, [name |-> OutputFilename(assignment),
                                            contents |-> CsvContents(assignment_records)]),
                 !.file_info = Append(@, FileInfo(assignment, assignment_records))]

RECURSIVE OutputGroups(_, _, _, _, _)
OutputGroups(acc, names, recs, dry_run, failing) ==
    IF names = <<>> THEN acc
    ELSE OutputGroups(OutputGroup(acc, Head(names), recs, dry_run, failing),
                      Tail(names), recs, dry_run, failing)

\* an output stage that writes in a preview as well
create_output_files_in_preview(recs, all_assignments, dry_run, mkdir_ok, failing) ==
    OutputGroups([file_info |-> <<>>, io_errors |-> <<>>, mkdir |-> TRUE, writes |-> <<>>],
                 SortedTexts({r.assignment : r \in Range(recs)}
                     \cup (IF IsSome(all_assignments) THEN Range(Get(all_assignments)) ELSE {})),
                 recs, FALSE, failing)

create_output_files(recs, all_assignments, dry_run, mkdir_ok, failing) ==
    IF ~dry_run /\ ~mkdir_ok
    THEN [file_info |-> <<>>,
          io_errors |-> <<[kind |-> "Unable to create output directory",
                           path |-> <<"output_dir">>]>>,
          mkdir |-> FALSE, writes |-> <<>>]
    ELSE OutputGroups([file_info |-> <<>>, io_errors |-> <<>>,
                       mkdir |-> ~dry_run, writes |-> <<>>],
                      SortedTexts(GroupNames(recs, all_assignments)),
                      recs, dry_run, failing)

\* the files of a directory after the writes, in order: a later write to a
\* name replaces the file
RECURSIVE ApplyWrites(_, _)
ApplyWrites(files, writes) ==
    IF writes = <<>> THEN files
    ELSE ApplyWrites(
            [n \in DOMAIN files \cup {Head(writes).name} |->
                IF n = Head(writes).name THEN Head(writes).contents ELSE files[n]],
            Tail(writes))

(***************************************************************************)
(* write_processed_copy.                                                   *)
(***************************************************************************)
ProcessedPath == <<"input", "_PROCESSED", ".csv">>

\* a copy that marks every row
MarkEveryRow(row, done_col, processed_set) ==
    [i \in 1..Len(row.fields) |-> IF i = done_col + 1 THEN <<"*">> ELSE row.fields[i]]

\* lines 617-621
MarkRow(row, done_col, processed_set) ==
    IF row.row_num \in processed_set
    THEN LET fields == IF done_col >= Len(row.fields)
                       THEN PadRow(row.fields, done_col + 1) ELSE row.fields
         IN  [fields EXCEPT ![done_col + 1] = <<"*">>]
    ELSE row.fields

write_processed_copy(input_path, td, processed_rows, dry_run, write_ok) ==
    IF ~input_path \/ ~IsSome(td)
    THEN [path |-> None,
          error |-> Some("No input file or parsed table data available"),
          contents |-> None]
    ELSE IF <<"DONE?">> \notin DOMAIN Get(td).col_map
    THEN [path |-> None,
          error |-> Some("Input file does not include a 'DONE?' column"),
          contents |-> None]
    ELSE IF dry_run
    THEN [path |-> Some(ProcessedPath), error |-> None, contents |-> None]
    ELSE IF ~write_ok
    THEN [path |-> None, error |-> Some("OSError"), contents |-> None]
    ELSE [path |-> Some(ProcessedPath), error |-> None,
          contents |-> Some(<<Get(td).header>> \o
              [i \in 1..Len(Get(td).rows) |->
                  MarkRow(Get(td).rows[i], Get(td).col_map[<<"DONE?">>],
                          processed_rows)])]

(***************************************************************************)
(* write_failure_report and generate_summary.                              *)
(***************************************************************************)
FailuresPath == <<"output_dir", "/", "failures.csv">>

\* lines 751-757: error.row or "", error.message, error.line or ""
FailureRow(error) ==
    [row |-> IF IsSome(error.row) /\ Get(error.row) # 0
             THEN DigitsOf(Get(error.row)) ELSE <<>>,
     message |-> error.message,
     line |-> IF IsSome(error.line) /\ Get(error.line) # <<>>
              THEN Get(error.line) ELSE <<>>]

\* a report that returns the path whether or not the file was written
write_failure_report_always_path(errs, dry_run, write_ok) ==
    IF errs = <<>> THEN [path |-> None, contents |-> None]
    ELSE IF dry_run \/ ~write_ok THEN [path |-> Some(FailuresPath), contents |-> None]
    ELSE [path |-> Some(FailuresPath),
          contents |-> Some([header |-> <<"Row", "Message", "Line">>,
                             rows |-> [i \in 1..Len(errs) |-> FailureRow(errs[i])]])]

write_failure_report(errs, dry_run, write_ok) ==
    IF errs = <<>> THEN [path |-> None, contents |-> None]
    ELSE IF dry_run THEN [path |-> Some(FailuresPath), contents |-> None]
    ELSE IF ~write_ok THEN [path |-> None, contents |-> None]
    ELSE [path |-> Some(FailuresPath),
          contents |-> Some([header |-> <<"Row", "Message", "Line">>,
                             rows |-> [i \in 1..Len(errs) |-> FailureRow(errs[i])]])]

\* lines 691-701: the entries under PARSING ERRORS
SummaryErrors(errs) ==
    [i \in 1..Len(errs) |->
        [row_info |-> IF IsSome(errs[i].row) /\ Get(errs[i].row) # 0
                      THEN DigitsOf(Get(errs[i].row)) ELSE <<>>,
         message |-> errs[i].message]]

\* lines 656-705: the text of the summary
generate_summary(recs, info, errs, io_errs, fpath) ==
    [total_assignments |-> Len(info),
     total_students |-> Len(recs),
     breakdown |-> info,
     rejected_rows_written_to |-> fpath,
     file_io_issues |-> io_errs,
     parsing_errors |-> SummaryErrors(errs)]

(***************************************************************************)
(* Calls of single functions.  While one function is under check, main     *)
(* does not run.                                                           *)
(***************************************************************************)
MainIdle ==
    /\ pc = "idle"
    /\ args = [input_file |-> FALSE, dry_run |-> FALSE, no_adjust |-> FALSE]
    /\ file_lines = None
    /\ parsed_records = <<>>
    /\ records = <<>>
    /\ errors = <<>>
    /\ table_data = None
    /\ file_info = <<>>
    /\ io_errors = <<>>
    /\ processed_copy = [path |-> None, error |-> None]
    /\ failures_path = None
    /\ summary_text = None
    /\ exit_code = None
    /\ fs = [dir |-> FALSE, csv |-> <<>>, writes |-> <<>>, processed |-> None,
             failures |-> None, summary |-> None]
    /\ faults = {}

\* sequences over S of length at most n
SeqsUpTo(S, n) == UNION {[1..k -> S] : k \in 0..n}

(***************************************************************************)
(* parse_date on date texts: padding, a month, a separator, a day, a       *)
(* separator, a year, padding; and on texts of no such shape.              *)
(***************************************************************************)
MaxPad == 1

MonthTexts ==
    {<<"0", "1">>, <<"1">>, <<"1", "2">>, <<"1", "3">>, <<"0", "0">>, <<"0", "2">>,
     <<"2">>, <<"0">>, <<"0", "1", "2">>, <<"a", "b">>, <<>>}

DayTexts ==
    {<<"0", "5">>, <<"5">>, <<" ", "5">>, <<"2", "9">>, <<"3", "0">>, <<"3", "1">>,
     <<"3", "2">>, <<"0", "0">>, <<"x">>, <<>>}

YearTexts ==
    {<<"2", "0", "2", "4">>, <<"2", "0", "2", "3">>, <<"2", "4">>,
     <<"2", "0", "2", "4", "5">>, <<"0", "0", "0", "0">>, <<"9", "9", "9", "9">>,
     <<"2", "0", "2", "x">>}

Separators == {"/", "-"}

OtherTexts ==
    {<<>>, <<"i", "n", "v", "a", "l", "i", "d">>, <<" ">>, <<"/", "/">>}

Paddings == SeqsUpTo(Whitespace, MaxPad)

DateText(p) ==
    p.lead \o p.month \o <<p.sep1>> \o p.day \o <<p.sep2>> \o p.year \o p.trail

DateTextParts ==
    [lead : Paddings, month : MonthTexts, sep1 : Separators, day : DayTexts,
     sep2 : Separators, year : YearTexts, trail : Paddings]

InitParseDate ==
    /\ \/ \E p \in DateTextParts : arg = [date_str |-> DateText(p), parts |-> Some(p)]
       \/ \E s \in OtherTexts : arg = [date_str |-> s, parts |-> None]
    /\ result = None
    /\ called = FALSE
    /\ MainIdle

CallParseDate ==
    /\ ~called
    /\ result' = parse_date(arg.date_str)
    /\ called' = TRUE
    /\ UNCHANGED <<arg, mainVars>>

SpecParseDate == InitParseDate /\ [][CallParseDate]_vars

AllDigits(s) == \A i \in 1..Len(s) : s[i] \in Digits

\* a month as strptime takes it: 1 to 12, with or without the leading zero
IsMonthText(s) == Len(s) \in {1, 2} /\ AllDigits(s) /\ IntOf(s) \in 1..12

\* a day as strptime takes it: 1 to 31, with or without the leading zero, or
\* one digit after a space
IsDayText(s) ==
    \/ Len(s) \in {1, 2} /\ AllDigits(s) /\ IntOf(s) \in 1..31
    \/ Len(s) = 2 /\ s[1] = " " /\ s[2] \in NonZeroDigits

IsYearText(s) == Len(s) = 4 /\ AllDigits(s)

\* the date the parts of a text denote, when they denote one
DenotesDate(p) ==
    /\ p.sep1 = "/" /\ p.sep2 = "/"
    /\ IsMonthText(p.month) /\ IsDayText(p.day) /\ IsYearText(p.year)
    /\ IsValidDate(IntOf(p.year), IntOf(p.month), IntOf(p.day))

DenotedDate(p) ==
    [year |-> IntOf(p.year), month |-> IntOf(p.month), day |-> IntOf(p.day)]

\* C10, as amended: parse_date returns a date exactly for the texts that,
\* after trimming surrounding whitespace, are a month 1-12 of one or two
\* digits, '/', a day of one or two digits (or a space and one digit), '/',
\* and a four-digit year, denoting a calendar date of year 1 or later; it is
\* that date; every other text yields None.
C10_ParseDateLenient ==
    called =>
        IF IsSome(arg.parts) /\ DenotesDate(Get(arg.parts))
        THEN result = Some(DenotedDate(Get(arg.parts)))
        ELSE result = None

\* C10 as stated: a date is returned only for two-digit month, two-digit
\* day, four-digit year.
C10_ParseDateStrict ==
    (called /\ IsSome(result)) =>
        /\ IsSome(arg.parts)
        /\ Len(Get(arg.parts).month) = 2 /\ AllDigits(Get(arg.parts).month)
        /\ Len(Get(arg.parts).day) = 2 /\ AllDigits(Get(arg.parts).day)
        /\ Len(Get(arg.parts).year) = 4 /\ AllDigits(Get(arg.parts).year)

\* a one-digit month and day, padded, parsed to a date
C10_Witness ==
    /\ called /\ IsSome(result)
    /\ IsSome(arg.parts)
    /\ Len(Get(arg.parts).month) = 1 /\ Len(Get(arg.parts).day) = 1
    /\ Get(arg.parts).lead # <<>>

(***************************************************************************)
(* deduplicate_records on lists of records in any order.                   *)
(***************************************************************************)
MaxRecords == 3

SomeEmails == {<<"a">>, <<"b">>}
SomeAssignments == {<<"H", "W", "1">>, <<"H", "W", "2">>}
SomeDates ==
    {[year |-> 2024, month |-> 1, day |-> 30],
     [year |-> 2024, month |-> 2, day |-> 4],
     [year |-> 2024, month |-> 2, day |-> 5]}

RecordChoices == [email : SomeEmails, assignment : SomeAssignments, date : SomeDates]

\* the records of a list of choices, numbered as rows 2, 3, ...
RecordsOf(choices) ==
    [i \in 1..Len(choices) |->
        ExtensionRecord(choices[i].email, <<"N">>, choices[i].assignment,
                        choices[i].date, i + 1)]

InitDeduplicate ==
    /\ \E choices \in SeqsUpTo(RecordChoices, MaxRecords) : arg = RecordsOf(choices)
    /\ result = <<>>
    /\ called = FALSE
    /\ MainIdle

CallDeduplicate ==
    /\ ~called
    /\ result' = deduplicate_records(arg)
    /\ called' = TRUE
    /\ UNCHANGED <<arg, mainVars>>

SpecDeduplicate == InitDeduplicate /\ [][CallDeduplicate]_vars

\* C1: deduplicate_records returns exactly one record per (assignment, email)
\* pair of its input, a record of the input that carries the latest
\* requested_date of its pair, and never more records than it was given.
C1_OnePerKeyWithMaxDate ==
    called =>
        /\ Len(result) <= Len(arg)
        /\ {Key(r) : r \in Range(result)} = {Key(r) : r \in Range(arg)}
        /\ \A i, j \in 1..Len(result) : Key(result[i]) = Key(result[j]) => i = j
        /\ \A r \in Range(result) :
              /\ r \in Range(arg)
              /\ \A q \in Range(arg) :
                    Key(q) = Key(r) => DateLE(q.requested_date, r.requested_date)

\* two pairs, one of them twice with the later date second
C1_Witness ==
    /\ called
    /\ Len(arg) = 3 /\ Len(result) = 2
    /\ \E i, j \in 1..Len(arg) :
          /\ i < j /\ Key(arg[i]) = Key(arg[j])
          /\ DateLT(arg[i].requested_date, arg[j].requested_date)

\* the records of the input with the key of r and the latest date of that key
LatestOfKey(r) ==
    {q \in Range(arg) :
        /\ Key(q) = Key(r)
        /\ \A p \in Range(arg) :
              Key(p) = Key(r) => DateLE(p.requested_date, q.requested_date)}

\* C24: of the records that share a key and its latest requested_date,
\* deduplicate_records keeps the one that comes first in the input.
C24_TiesKeepFirst ==
    called =>
        \A r \in Range(result) :
            /\ r \in LatestOfKey(r)
            /\ \A q \in LatestOfKey(r) : r.row_num <= q.row_num

\* an earlier date, then the latest date of the key twice: the first of the
\* two was kept, after it had replaced the earlier one
C24_Witness ==
    /\ called
    /\ Len(arg) = 3 /\ Len(result) = 1
    /\ DateLT(arg[1].requested_date, arg[2].requested_date)
    /\ arg[2].requested_date = arg[3].requested_date
    /\ result[1].row_num = arg[2].row_num

(***************************************************************************)
(* A run of main().  With --input-file the lines are those of the file;    *)
(* without it they are the lines pasted or taken from the clipboard.       *)
(***************************************************************************)
MaxRows == 2

\* the writes that fail in one run
MaxFaults == 2

FullHeader ==
    <<DEFAULT_COLUMNS.email, DEFAULT_COLUMNS.name, DEFAULT_COLUMNS.assignment,
      DEFAULT_COLUMNS.date, DEFAULT_COLUMNS.done>>

\* the header as a spreadsheet export writes it: a byte-order mark before the
\* first name, a space after it
MarkedHeader == <<<<BOM>> \o DEFAULT_COLUMNS.email \o <<" ">>>> \o Tail(FullHeader)

Headers ==
    {MarkedHeader,
     SubSeq(FullHeader, 1, 4),          \* no DONE? column
     SubSeq(FullHeader, 1, 2),          \* the assignment and date columns are missing
     Tail(FullHeader)}                  \* the email column is missing

HW1 == <<"H", "W", "1">>
hw1 == <<"h", "w", "1">>
HW2 == <<"H", "W", " ", "2">>
Tuesday == <<"0", "1", "/", "3", "0", "/", "2", "0", "2", "4">>
Sunday == <<"0", "2", "/", "0", "4", "/", "2", "0", "2", "4">>
Friday == <<"1", "/", "5", "/", "2", "0", "2", "4">>
Month13 == <<"1", "3", "/", "0", "1", "/", "2", "0", "2", "4">>
LastThursday == <<"1", "2", "/", "3", "0", "/", "9", "9", "9", "9">>

DataRows ==
    {<<<<"a">>, <<"N">>, HW1, Tuesday, <<>>>>,
     <<<<"a">>, <<"N">>, HW1, Sunday, <<>>>>,       \* the same pair, a later date
     <<<<"b">>, <<"N">>, hw1, Friday, <<>>>>,       \* another assignment, the same file name
     <<<<"a">>, <<"N">>, HW2, Month13, <<>>>>,      \* no such date
     <<<<"b">>, <<"N">>, HW1, Tuesday, <<"*">>>>,   \* already handled
     <<<<"b">>, <<"N">>, HW2, LastThursday, <<>>>>, \* no Sunday follows in year 9999
     <<<<>>, <<"N">>, HW1, <<" ">>, <<>>>>,         \* no email and no date
     <<<<>>, <<"N">>, HW2, Month13, <<"*">>>>,      \* already handled, and no email, no such date
     <<<<>>, <<" ">>, <<>>, <<>>, <<>>>>}           \* a blank row

InputFiles ==
    {None, Some(<<>>)}
        \cup {Some(<<h>> \o rows) : h \in Headers, rows \in SeqsUpTo(DataRows, MaxRows)}

\* the flags of a run: a file as it is, previewed, and without adjustment,
\* and pasted text
CommandLines ==
    {[input_file |-> TRUE, dry_run |-> FALSE, no_adjust |-> FALSE],
     [input_file |-> TRUE, dry_run |-> TRUE, no_adjust |-> FALSE],
     [input_file |-> TRUE, dry_run |-> FALSE, no_adjust |-> TRUE],
     [input_file |-> FALSE, dry_run |-> FALSE, no_adjust |-> FALSE]}

Init ==
    /\ arg = None /\ result = None /\ called = FALSE
    /\ pc = "start"
    /\ args \in CommandLines
    /\ file_lines \in InputFiles
    /\ parsed_records = <<>>
    /\ records = <<>>
    /\ errors = <<>>
    /\ table_data = None
    /\ file_info = <<>>
    /\ io_errors = <<>>
    /\ processed_copy = [path |-> None, error |-> None]
    /\ failures_path = None
    /\ summary_text = None
    /\ exit_code = None
    /\ fs = [dir |-> FALSE, csv |-> <<>>, writes |-> <<>>, processed |-> None,
             failures |-> None, summary |-> None]
    /\ faults = {}

\* an OSError: what could not be written, and for a CSV, of which assignment
Fault(op, target) == [op |-> op, target |-> target]

\* line.strip() of a line of the file is empty
IsBlankLine(fields) == Len(fields) = 0 \/ (Len(fields) = 1 /\ strip(fields[1]) = <<>>)

\* line 979
NonBlankLines(lines) == SelectSeq(lines, LAMBDA l : ~IsBlankLine(l))

\* lines 946-979: read the file; no data is an error
ReadInput ==
    /\ pc = "start"
    /\ IF ~IsSome(file_lines) \/ NonBlankLines(Get(file_lines)) = <<>>
       THEN pc' = "done" /\ exit_code' = Some(1)
       ELSE pc' = "process" /\ UNCHANGED exit_code
    /\ UNCHANGED <<fnVars, args, file_lines, parsed_records, records, errors,
                   table_data, file_info, io_errors, processed_copy, failures_path,
                   summary_text, fs, faults>>

\* lines 983-994
ProcessInput ==
    /\ pc = "process"
    /\ LET out == process_extension_data(NonBlankLines(Get(file_lines)), DEFAULT_COLUMNS)
       IN  /\ records' = out.records
           /\ parsed_records' = out.records
           /\ errors' = out.errors
           /\ table_data' = out.table_data
           /\ IF out.records = <<>> /\ out.errors # <<>>
              THEN pc' = "done" /\ exit_code' = Some(1)
              ELSE pc' = "deduplicate" /\ UNCHANGED exit_code
    /\ UNCHANGED <<fnVars, args, file_lines, file_info, io_errors, processed_copy,
                   failures_path, summary_text, fs, faults>>

\* lines 996-1005
Deduplicate ==
    /\ pc = "deduplicate"
    /\ records' = deduplicate_records(records)
    /\ pc' = "adjust"
    /\ UNCHANGED <<fnVars, args, file_lines, parsed_records, errors, table_data,
                   file_info, io_errors, processed_copy, failures_path, summary_text,
                   exit_code, fs, faults>>

\* lines 1008-1013; an OverflowError of get_next_sunday ends the run
AdjustDates ==
    /\ pc = "adjust"
    /\ ~args.no_adjust
    /\ IF adjust_dates_raises(records)
       THEN pc' = "crashed" /\ UNCHANGED records
       ELSE pc' = "output" /\ records' = adjust_dates(records)
    /\ UNCHANGED <<fnVars, args, file_lines, parsed_records, errors, table_data,
                   file_info, io_errors, processed_copy, failures_path, summary_text,
                   exit_code, fs, faults>>

\* lines 1014-1028
SkipAdjust ==
    /\ pc = "adjust"
    /\ args.no_adjust
    /\ records' = no_adjust_records(records)
    /\ pc' = "output"
    /\ UNCHANGED <<fnVars, args, file_lines, parsed_records, errors, table_data,
                   file_info, io_errors, processed_copy, failures_path, summary_text,
                   exit_code, fs, faults>>

AllAssignments == IF IsSome(table_data) THEN Some(Get(table_data).all_assignments) ELSE None

\* lines 1030-1036; the directory or some of the files may be unwritable
CreateOutputFiles ==
    /\ pc = "output"
    /\ \E mkdir_ok \in BOOLEAN, failing \in SUBSET GroupNames(records, AllAssignments) :
          /\ args.dry_run => (mkdir_ok /\ failing = {})
          /\ ~mkdir_ok => failing = {}
          /\ Cardinality(failing) <= MaxFaults
          /\ LET out == create_output_files(records, AllAssignments, args.dry_run,
                                            mkdir_ok, failing)
             IN  /\ file_info' = out.file_info
                 /\ io_errors' = out.io_errors
                 /\ fs' = [fs EXCEPT !.dir = @ \/ out.mkdir,
                                     !.csv = ApplyWrites(@, out.writes),
                                     !.writes = @ \o out.writes]
          /\ faults' = faults \cup (IF mkdir_ok THEN {} ELSE {Fault("mkdir", <<>>)})
                              \cup {Fault("csv", a) : a \in failing}
    /\ pc' = "copy"
    /\ UNCHANGED <<fnVars, args, file_lines, parsed_records, records, errors,
                   table_data, processed_copy, failures_path, summary_text, exit_code>>

\* lines 1038-1053
WriteProcessedCopy ==
    /\ pc = "copy"
    /\ IF args.input_file /\ IsSome(table_data)
       THEN \E write_ok \in BOOLEAN :
               LET out == write_processed_copy(args.input_file, table_data,
                              {records[i].row_num : i \in 1..Len(records)},
                              args.dry_run, write_ok)
               IN  /\ write_ok \/ (out.error = Some("OSError") /\ Cardinality(faults) < MaxFaults)
                   /\ processed_copy' = [path |-> out.path, error |-> out.error]
                   /\ fs' = [fs EXCEPT !.processed =
                                IF IsSome(out.contents) THEN out.contents ELSE @]
                   /\ faults' = faults \cup (IF write_ok THEN {} ELSE {Fault("processed", <<>>)})
       ELSE UNCHANGED <<processed_copy, fs, faults>>
    /\ pc' = "report"
    /\ UNCHANGED <<fnVars, args, file_lines, parsed_records, records, errors,
                   table_data, file_info, io_errors, failures_path, summary_text,
                   exit_code>>

\* lines 1055-1057
WriteFailureReport ==
    /\ pc = "report"
    /\ \E write_ok \in BOOLEAN :
          LET out == write_failure_report(errors, args.dry_run, write_ok)
          IN  /\ write_ok \/ (errors # <<>> /\ ~args.dry_run /\ Cardinality(faults) < MaxFaults)
              /\ failures_path' = out.path
              /\ fs' = [fs EXCEPT !.failures =
                           IF IsSome(out.contents) THEN out.contents ELSE @]
              /\ faults' = faults \cup (IF write_ok THEN {} ELSE {Fault("failures", <<>>)})
    /\ pc' = "summary"
    /\ UNCHANGED <<fnVars, args, file_lines, parsed_records, records, errors,
                   table_data, file_info, io_errors, processed_copy, summary_text,
                   exit_code>>

\* lines 1060-1068, and 710-718: SUMMARY.txt is written unless in a dry run
GenerateSummary ==
    /\ pc = "summary"
    /\ summary_text' = Some(generate_summary(records, file_info, errors, io_errors,
                                             failures_path))
    /\ \E write_ok \in BOOLEAN :
          /\ write_ok \/ (~args.dry_run /\ Cardinality(faults) < MaxFaults)
          /\ fs' = [fs EXCEPT !.summary =
                       IF ~args.dry_run /\ write_ok THEN summary_text' ELSE @]
          /\ faults' = faults \cup (IF write_ok THEN {} ELSE {Fault("summary", <<>>)})
    /\ pc' = "exit"
    /\ UNCHANGED <<fnVars, args, file_lines, parsed_records, records, errors,
                   table_data, file_info, io_errors, processed_copy, failures_path,
                   exit_code>>

\* lines 1070-1073
Exit ==
    /\ pc = "exit"
    /\ exit_code' = Some(IF io_errors # <<>> THEN 1 ELSE 0)
    /\ pc' = "done"
    /\ UNCHANGED <<fnVars, args, file_lines, parsed_records, records, errors,
                   table_data, file_info, io_errors, processed_copy, failures_path,
                   summary_text, fs, faults>>

Next ==
    \/ ReadInput
    \/ ProcessInput
    \/ Deduplicate
    \/ AdjustDates
    \/ SkipAdjust
    \/ CreateOutputFiles
    \/ WriteProcessedCopy
    \/ WriteFailureReport
    \/ GenerateSummary
    \/ Exit

Spec == Init /\ [][Next]_vars

(***************************************************************************)
(* Properties of a run of main().                                          *)
(***************************************************************************)
\* the input has a header with every required column
ValidHeader ==
    /\ IsSome(file_lines)
    /\ NonBlankLines(Get(file_lines)) # <<>>
    /\ MissingCols(DEFAULT_COLUMNS,
                   ColMap(HeaderOf(Head(NonBlankLines(Get(file_lines)))))) = <<>>

\* create_output_files has returned (an early return of main skips it, and
\* the summary)
AfterOutput ==
    \/ pc \in {"copy", "report", "summary", "exit"}
    \/ pc = "done" /\ IsSome(summary_text)

FaultOps == {f.op : f \in faults}

\* the assignments whose CSV could not be written
FailedGroups == {f.target : f \in {g \in faults : g.op = "csv"}}

Groups == GroupNames(records, AllAssignments)

\* C2: a run on an input with a valid header, whose output stage reported no
\* I/O error, exits with 0, whether some or all rows were rejected.
C2_ExitZeroWithoutIoErrors ==
    (pc = "done" /\ ValidHeader /\ io_errors = <<>>) => exit_code = Some(0)

\* the row-level errors: those that carry a row number
RowErrors == {e \in Range(errors) : IsSome(e.row)}

\* C3: at the end of a run (no dry run, every write succeeded), each row-level
\* parse error is a row of failures.csv and an entry of the summary.
C3_ErrorsInFailuresFileAndSummary ==
    (pc = "done" /\ ~args.dry_run /\ faults = {}) =>
        \A e \in RowErrors :
            /\ IsSome(fs.failures)
            /\ FailureRow(e) \in Range(Get(fs.failures).rows)
            /\ IsSome(summary_text)
            /\ \E s \in Range(Get(summary_text).parsing_errors) :
                  s.row_info = DigitsOf(Get(e.row)) /\ s.message = e.message

\* the line of the processed copy that holds the row with this number
ProcessedLine(row_num) ==
    Get(fs.processed)[1 + CHOOSE i \in 1..Len(Get(table_data).rows) :
                            Get(table_data).rows[i].row_num = row_num]

DoneIndex == Get(table_data).col_map[DEFAULT_COLUMNS.done] + 1

\* C4: in the processed copy of a full run (no dry run, every write
\* succeeded) on a file with a DONE? column, every row the parser made a
\* record of carries '*', also when deduplication dropped its record.
C4_ParsedRowsMarked ==
    (pc = "done" /\ faults = {} /\ IsSome(fs.processed)) =>
        \A r \in Range(parsed_records) : ProcessedLine(r.row_num)[DoneIndex] = <<"*">>

\* C5: when no write fails, create_output_files leaves one file per group,
\* and each group's file holds the rows of that group.
C5_OneFilePerGroup ==
    (AfterOutput /\ ~args.dry_run /\ FaultOps \cap {"mkdir", "csv"} = {}) =>
        /\ Cardinality(DOMAIN fs.csv) = Cardinality(Groups)
        /\ \A a \in Groups :
              /\ OutputFilename(a) \in DOMAIN fs.csv
              /\ \A row \in Range(fs.csv[OutputFilename(a)].rows) : row[3] = a
              /\ Len(fs.csv[OutputFilename(a)].rows) = Len(GroupOf(records, a))

\* C6, as amended: when a file cannot be written, an error naming it is
\* returned, the statistics of every group whose write did not fail are
\* returned, in order, and the groups after the failing one are processed
\* and written; when the directory cannot be created, the call returns one
\* error naming the directory and no statistics, and writes nothing.
C6_WriteFailuresDoNotAbort ==
    (AfterOutput /\ ~args.dry_run) =>
        IF "mkdir" \in FaultOps
        THEN /\ file_info = <<>>
             /\ io_errors = <<[kind |-> "Unable to create output directory",
                               path |-> <<"output_dir">>]>>
             /\ DOMAIN fs.csv = {}
        ELSE LET written == SortedTexts(Groups \ FailedGroups)
                 failed == SortedTexts(Groups \cap FailedGroups)
             IN  /\ Len(file_info) = Len(written)
                 /\ \A i \in 1..Len(written) :
                       /\ file_info[i].assignment = written[i]
                       /\ file_info[i].num_students = Len(GroupOf(records, written[i]))
                       /\ file_info[i].filename \in DOMAIN fs.csv
                 /\ Len(io_errors) = Len(failed)
                 /\ \A i \in 1..Len(failed) :
                       io_errors[i] = [kind |-> "Failed to write",
                                       path |-> OutputFilename(failed[i])]

\* C6 as stated: after any I/O failure, the directory's included, an error
\* is returned and so are the statistics of every group that did not fail.
C6_IoFailuresDoNotAbort ==
    (AfterOutput /\ ~args.dry_run /\ FaultOps \cap {"mkdir", "csv"} # {}) =>
        /\ io_errors # <<>>
        /\ {file_info[i].assignment : i \in 1..Len(file_info)} = Groups \ FailedGroups

\* the file of one group failed, and a later group has its statistics
C6_Witness ==
    /\ AfterOutput /\ ~args.dry_run
    /\ \E a \in FailedGroups : \E i \in 1..Len(file_info) :
          StrLT(a, file_info[i].assignment)

\* C7: main exits non-zero when no usable data was supplied, when a required
\* column is missing, or when the output directory, a CSV, failures.csv or
\* SUMMARY.txt could not be written.
C7_FailureExit ==
    (/\ pc = "done"
     /\ \/ ~ValidHeader
        \/ FaultOps \cap {"mkdir", "csv", "failures", "summary"} # {})
        => (IsSome(exit_code) /\ Get(exit_code) # 0)

\* C9, as amended: a due_date that is set is on or after the requested_date;
\* with adjustment it is the first Sunday on or after it, without
\* adjustment (--no-adjust) it is the requested_date itself, on any weekday.
C9_DueDateByMode ==
    \A r \in Range(records) :
        IsSome(r.due_date) =>
            /\ DateLE(r.requested_date, Get(r.due_date))
            /\ IF args.no_adjust
               THEN Get(r.due_date) = r.requested_date
               ELSE /\ weekday(Get(r.due_date)) = 6
                    /\ toordinal(Get(r.due_date)) - toordinal(r.requested_date) <= 6

\* C9 as stated: in both modes a due_date that is set is on or after the
\* requested_date and is a Sunday.
C9_DueDateOnSunday ==
    \A r \in Range(records) :
        IsSome(r.due_date) =>
            /\ DateLE(r.requested_date, Get(r.due_date))
            /\ weekday(Get(r.due_date)) = 6

\* a Tuesday was moved to its Sunday
C9_Witness ==
    /\ ~args.no_adjust
    /\ \E r \in Range(records) :
          /\ IsSome(r.due_date)
          /\ weekday(r.requested_date) = 1
          /\ DateLT(r.requested_date, Get(r.due_date))

(***************************************************************************)
(* Properties of process_extension_data, on the lines main hands to it.    *)
(***************************************************************************)
DataLines == NonBlankLines(Get(file_lines))

\* process_extension_data has returned
Parsed == pc \notin {"start", "process"} /\ IsSome(file_lines) /\ DataLines # <<>>

\* the names of the header, cleaned as the parser cleans them
HeaderNames == Range(HeaderOf(Head(DataLines)))

\* the required columns the header lacks, in the order of the configuration
HeaderMissing ==
    SelectSeq(required(DEFAULT_COLUMNS), LAMBDA c : c \notin HeaderNames)

\* the cell of a data line under a column of the header, stripped
CellOf(line, column) ==
    LET header == HeaderOf(Head(DataLines))
        i == CHOOSE k \in 1..Len(header) :
                header[k] = column /\ \A j \in 1..Len(header) : header[j] = column => j <= k
    IN  IF i <= Len(line) THEN strip(line[i]) ELSE <<>>

\* the line is marked as already handled
Marked(line) ==
    DEFAULT_COLUMNS.done \in HeaderNames /\ CellOf(line, DEFAULT_COLUMNS.done) = <<"*">>

\* the labels of the required fields the line leaves blank
BlankFields(line) ==
    SelectSeq(<<[label |-> "Email", column |-> DEFAULT_COLUMNS.email],
                [label |-> "Name", column |-> DEFAULT_COLUMNS.name],
                [label |-> "Assignment", column |-> DEFAULT_COLUMNS.assignment],
                [label |-> "RequestedDate", column |-> DEFAULT_COLUMNS.date]>>,
              LAMBDA f : CellOf(line, f.column) = <<>>)

ErrorsOfRow(row_num) == {k \in 1..Len(errors) : errors[k].row = Some(row_num)}

RecordsOfRow(row_num) == {r \in Range(parsed_records) : r.row_num = row_num}

\* C14: when the header lacks required columns, process_extension_data
\* returns no record, one error that names every missing column and carries
\* no row, and no TableData, whatever data rows follow.
C14_MissingColumnsAbort ==
    (Parsed /\ HeaderMissing # <<>>) =>
        /\ parsed_records = <<>>
        /\ errors = <<ParseError([kind |-> "Missing required columns",
                                  detail |-> HeaderMissing], None, None)>>
        /\ table_data = None

\* two columns are missing and two data rows follow the header
C14_Witness ==
    /\ Parsed
    /\ Len(HeaderMissing) = 2
    /\ Len(DataLines) = 3
    /\ Len(errors) = 1

\* C15: a data row that is not blank, not marked as handled, and leaves
\* required fields blank gives no record and exactly one error, which carries
\* the row's number and lists every blank field; the rows after it are still
\* parsed.
C15_BlankFieldsOneError ==
    (Parsed /\ HeaderMissing = <<>>) =>
        \A i \in 2..Len(DataLines) :
            (/\ ~IsBlankRow(DataLines[i])
             /\ ~Marked(DataLines[i])
             /\ BlankFields(DataLines[i]) # <<>>) =>
                /\ RecordsOfRow(i) = {}
                /\ Cardinality(ErrorsOfRow(i)) = 1
                /\ \A k \in ErrorsOfRow(i) :
                      errors[k].message =
                          [kind |-> "Missing fields",
                           detail |-> [n \in 1..Len(BlankFields(DataLines[i])) |->
                                          BlankFields(DataLines[i])[n].label]]
                /\ \A j \in (i + 1)..Len(DataLines) :
                      ~IsBlankRow(DataLines[j]) =>
                          \E row \in Range(Get(table_data).rows) : row.row_num = j

\* a row without email and date, and after it a row that gave a record
C15_Witness ==
    /\ Parsed /\ HeaderMissing = <<>>
    /\ Len(DataLines) = 3
    /\ Len(BlankFields(DataLines[2])) = 2
    /\ ErrorsOfRow(2) # {}
    /\ RecordsOfRow(3) # {}

\* C16: a data row whose marker cell is '*' gives no record and no error,
\* whatever its other fields hold; it is kept among the raw rows of the
\* TableData, and its assignment, when not blank, among all_assignments.
C16_HandledRowsSkipped ==
    (Parsed /\ HeaderMissing = <<>>) =>
        \A i \in 2..Len(DataLines) :
            Marked(DataLines[i]) =>
                /\ RecordsOfRow(i) = {}
                /\ ErrorsOfRow(i) = {}
                /\ \E row \in Range(Get(table_data).rows) :
                      row.row_num = i /\ row.fields = DataLines[i]
                /\ CellOf(DataLines[i], DEFAULT_COLUMNS.assignment) # <<>> =>
                      CellOf(DataLines[i], DEFAULT_COLUMNS.assignment)
                          \in Range(Get(table_data).all_assignments)

\* a handled row without email and with a date that does not exist
C16_Witness ==
    /\ Parsed /\ HeaderMissing = <<>>
    /\ \E i \in 2..Len(DataLines) :
          /\ Marked(DataLines[i])
          /\ CellOf(DataLines[i], DEFAULT_COLUMNS.email) = <<>>
          /\ parse_date(CellOf(DataLines[i], DEFAULT_COLUMNS.date)) = None
          /\ \E row \in Range(Get(table_data).rows) : row.row_num = i

(***************************************************************************)
(* Properties of the output stage.                                         *)
(***************************************************************************)
CsvHeader == <<"Email", "Name", "Assignment", "DueDate", "RECORD">>

\* C17: the statistics create_output_files returns are in ascending order of
\* assignment name, and the rows of every file it writes are in ascending
\* order of email, whatever the order of the records.
C17_SortedOutput ==
    AfterOutput =>
        /\ \A i, j \in 1..Len(file_info) :
              i < j => StrLT(file_info[i].assignment, file_info[j].assignment)
        /\ \A w \in Range(fs.writes) :
              \A i, j \in 1..Len(w.contents.rows) :
                  i < j => StrLE(w.contents.rows[i][1], w.contents.rows[j][1])

\* a file of two rows whose records came in the other order
C17_Witness ==
    /\ AfterOutput
    /\ \E w \in Range(fs.writes) :
          /\ Len(w.contents.rows) = 2
          /\ StrLT(w.contents.rows[1][1], w.contents.rows[2][1])
          /\ \E i, j \in 1..Len(records) :
                /\ i < j
                /\ records[i].assignment = records[j].assignment
                /\ records[j].email = w.contents.rows[1][1]
                /\ records[i].email = w.contents.rows[2][1]

\* the assignments that were seen and have no record left
EmptyGroups ==
    {a \in (IF IsSome(AllAssignments) THEN Range(Get(AllAssignments)) ELSE {}) :
        GroupOf(records, a) = <<>>}

\* every data row of the input is marked as already handled
EveryRowHandled ==
    /\ Parsed /\ HeaderMissing = <<>>
    /\ Len(DataLines) >= 2
    /\ \A i \in 2..Len(DataLines) : Marked(DataLines[i])

\* C18: for every assignment that was seen and has no record left,
\* create_output_files returns statistics with a count of 0 and N/A for both
\* dates and, unless in a preview or when the write fails, writes a file of
\* the header and no data row; a run whose rows are all handled reaches
\* this and exits with 0 when no I/O error was reported.
C18_EmptyGroupsEmitted ==
    /\ (AfterOutput /\ "mkdir" \notin FaultOps) =>
          \A a \in EmptyGroups \ FailedGroups :
              /\ \E i \in 1..Len(file_info) :
                    file_info[i] = [assignment |-> a,
                                    filename |-> OutputFilename(a),
                                    num_students |-> 0,
                                    earliest_date |-> NotApplicable,
                                    latest_date |-> NotApplicable]
              /\ ~args.dry_run =>
                    \E w \in Range(fs.writes) :
                        /\ w.name = OutputFilename(a)
                        /\ w.contents = [header |-> CsvHeader, rows |-> <<>>]
    /\ (pc = "done" /\ EveryRowHandled) =>
          /\ IsSome(summary_text)
          /\ io_errors = <<>> => exit_code = Some(0)

\* a run whose rows were all handled wrote a file without rows and exited with 0
C18_Witness ==
    /\ pc = "done" /\ EveryRowHandled
    /\ ~args.dry_run
    /\ exit_code = Some(0)
    /\ Len(file_info) = 1 /\ file_info[1].num_students = 0
    /\ \E w \in Range(fs.writes) : w.contents.rows = <<>>

\* write_processed_copy, write_failure_report, generate_summary have returned
AfterCopy == pc \in {"report", "summary", "exit"} \/ (pc = "done" /\ IsSome(summary_text))
AfterReport == pc \in {"summary", "exit"} \/ (pc = "done" /\ IsSome(summary_text))
AfterSummary == pc = "exit" \/ (pc = "done" /\ IsSome(summary_text))

\* C19: in a preview (--dry-run) the files stay as they were: no directory,
\* no CSV, no processed copy, no failures.csv, no SUMMARY.txt; and the
\* stages still return the statistics of every group, the path of the
\* processed copy, the path of the failures file and the summary text.
C19_DryRunWritesNothing ==
    args.dry_run =>
        /\ fs = [dir |-> FALSE, csv |-> <<>>, writes |-> <<>>, processed |-> None,
                 failures |-> None, summary |-> None]
        /\ AfterOutput =>
              /\ io_errors = <<>>
              /\ Len(file_info) = Cardinality(Groups)
              /\ \A a \in Groups : \E i \in 1..Len(file_info) :
                    /\ file_info[i].assignment = a
                    /\ file_info[i].filename = OutputFilename(a)
                    /\ file_info[i].num_students = Len(GroupOf(records, a))
        /\ (AfterCopy /\ args.input_file /\ DEFAULT_COLUMNS.done \in HeaderNames) =>
              processed_copy = [path |-> Some(ProcessedPath), error |-> None]
        /\ AfterReport => (IsSome(failures_path) <=> errors # <<>>)
        /\ AfterSummary =>
              /\ IsSome(summary_text)
              /\ Get(summary_text).total_students = Len(records)
              /\ Get(summary_text).breakdown = file_info

\* a preview of a file with a good and a bad row, run to its end
C19_Witness ==
    /\ args.dry_run /\ pc = "done"
    /\ file_info # <<>> /\ records # <<>>
    /\ IsSome(processed_copy.path)
    /\ IsSome(failures_path)
    /\ IsSome(summary_text)
    /\ ~fs.dir

(***************************************************************************)
(* write_failure_report on lists of errors, with and without row numbers.  *)
(***************************************************************************)
MaxErrors == 3

ErrorChoices ==
    {ParseError([kind |-> "Missing fields", detail |-> <<"Email">>], Some(2),
                Some(<<<<>>, <<"N">>, HW1, Tuesday>>)),
     ParseError([kind |-> "Invalid date format", detail |-> Month13], Some(3),
                Some(<<<<"a">>, <<"N">>, HW2, Month13>>)),
     ParseError([kind |-> "Missing required columns",
                 detail |-> <<DEFAULT_COLUMNS.date>>], None, None)}

InitFailureReport ==
    /\ \E errs \in SeqsUpTo(ErrorChoices, MaxErrors), dry_run \in BOOLEAN :
          arg = [errors |-> errs, dry_run |-> dry_run]
    /\ result = None
    /\ called = FALSE
    /\ MainIdle

\* the call, on a writable and on an unwritable directory
CallFailureReport ==
    /\ ~called
    /\ \E write_ok \in BOOLEAN :
          result' = Some([out |-> write_failure_report(arg.errors, arg.dry_run, write_ok),
                          write_ok |-> write_ok])
    /\ called' = TRUE
    /\ UNCHANGED <<arg, mainVars>>

SpecFailureReport == InitFailureReport /\ [][CallFailureReport]_vars

\* C8, as amended: write_failure_report returns the path when the list is
\* not empty and the file was written (or the run is a dry run, which writes
\* nothing), and returns nothing when the list is empty and also when the
\* write failed; a written file has one row per error: the row number or
\* blank, the message, the raw line or blank.
C8_PathUnlessEmptyOrWriteFailed ==
    called =>
        LET out == Get(result).out
            wrote == arg.errors # <<>> /\ ~arg.dry_run /\ Get(result).write_ok
        IN  /\ IsSome(out.path) <=>
                  (arg.errors # <<>> /\ (arg.dry_run \/ Get(result).write_ok))
            /\ IsSome(out.contents) <=> wrote
            /\ wrote =>
                  /\ Len(Get(out.contents).rows) = Len(arg.errors)
                  /\ \A i \in 1..Len(arg.errors) :
                        LET row == Get(out.contents).rows[i]
                            e == arg.errors[i]
                        IN  /\ row.row = IF IsSome(e.row) THEN DigitsOf(Get(e.row))
                                         ELSE <<>>
                            /\ row.message = e.message
                            /\ row.line = IF IsSome(e.line) THEN Get(e.line) ELSE <<>>

\* C8 as stated: the path is returned whenever the list is not empty, and
\* nothing only when it is empty.
C8_PathIffErrors ==
    called => (IsSome(Get(result).out.path) <=> arg.errors # <<>>)

\* errors with and without a row number, written to the file
C8_Witness ==
    /\ called
    /\ IsSome(Get(result).out.contents)
    /\ \E e \in Range(arg.errors) : ~IsSome(e.row)
    /\ \E e \in Range(arg.errors) : IsSome(e.row)

(***************************************************************************)
(* get_next_sunday on runs of consecutive dates: within a month, over the  *)
(* end of February in a leap and in a common year, over the end of a year, *)
(* and up to the last date a datetime can hold.                            *)
(***************************************************************************)
MaxSpan == 16

FirstDates ==
    {[year |-> 2024, month |-> 1, day |-> 28],      \* a Sunday
     [year |-> 2024, month |-> 2, day |-> 20],
     [year |-> 2023, month |-> 2, day |-> 20],
     [year |-> 2023, month |-> 12, day |-> 20],
     [year |-> 9999, month |-> 12, day |-> 15]}

SpanDates ==
    {d \in {AddDays(f, k) : f \in FirstDates, k \in 0..MaxSpan} : d.year <= MAXYEAR}

\* what a call does: None when it raises OverflowError, or the date returned
CallOf_get_next_sunday(date) ==
    IF get_next_sunday_raises(date) THEN None ELSE Some(get_next_sunday(date))

InitNextSunday ==
    /\ arg \in SpanDates
    /\ result = [first |-> None, second |-> None]
    /\ called = FALSE
    /\ MainIdle

\* get_next_sunday(d)
CallGetNextSunday ==
    /\ ~called
    /\ result' = [result EXCEPT !.first = CallOf_get_next_sunday(arg)]
    /\ called' = TRUE
    /\ UNCHANGED <<arg, mainVars>>

\* get_next_sunday(get_next_sunday(d)), when the first call returned
CallGetNextSundayAgain ==
    /\ called
    /\ IsSome(result.first)
    /\ result.second = None
    /\ result' = [result EXCEPT !.second = Some(CallOf_get_next_sunday(Get(result.first)))]
    /\ UNCHANGED <<arg, called, mainVars>>

NextSundayNext == CallGetNextSunday \/ CallGetNextSundayAgain

SpecNextSunday == InitNextSunday /\ [][NextSundayNext]_vars

\* C11: for every date d, get_next_sunday(d) returns a Sunday that is d + k
\* days for some k in 0..6, and k is 0 exactly when d is a Sunday.
C11_NextSundayWithinSixDays ==
    called =>
        /\ IsSome(result.first)
        /\ weekday(Get(result.first)) = 6
        /\ toordinal(Get(result.first)) - toordinal(arg) \in 0..6
        /\ (Get(result.first) = arg) <=> (weekday(arg) = 6)

\* C12: for every date d, get_next_sunday(d) returns, and applying
\* get_next_sunday to what it returned returns the same date.
C12_NextSundayIdempotent ==
    called =>
        /\ IsSome(result.first)
        /\ result.second # None => Get(result.second) = result.first

(***************************************************************************)
(* format_date(parse_date(s)) on texts of two digits, '/', two digits,     *)
(* '/', four digits.                                                       *)
(***************************************************************************)
CanonicalMonths == {<<"0", "1">>, <<"0", "2">>, <<"1", "2">>, <<"1", "3">>, <<"0", "0">>}

CanonicalDays ==
    {<<"0", "1">>, <<"0", "5">>, <<"2", "9">>, <<"3", "0">>, <<"3", "1">>,
     <<"3", "2">>, <<"0", "0">>}

CanonicalYears ==
    {<<"0", "0", "0", "1">>, <<"0", "9", "9", "9">>, <<"1", "0", "0", "0">>,
     <<"2", "0", "2", "3">>, <<"2", "0", "2", "4">>, <<"9", "9", "9", "9">>,
     <<"0", "0", "0", "0">>}

CanonicalParts ==
    [lead : {<<>>}, month : CanonicalMonths, sep1 : {"/"}, day : CanonicalDays,
     sep2 : {"/"}, year : CanonicalYears, trail : {<<>>}]

InitRoundTrip ==
    /\ \E p \in CanonicalParts : arg = [date_str |-> DateText(p), parts |-> Some(p)]
    /\ result = [parsed |-> None, formatted |-> None]
    /\ called = FALSE
    /\ MainIdle

\* parse_date(s)
RoundTripParse ==
    /\ ~called
    /\ result' = [result EXCEPT !.parsed = parse_date(arg.date_str)]
    /\ called' = TRUE
    /\ UNCHANGED <<arg, mainVars>>

\* format_date of the date parse_date returned
RoundTripFormat ==
    /\ called
    /\ IsSome(result.parsed)
    /\ result.formatted = None
    /\ result' = [result EXCEPT !.formatted = Some(format_date(Get(result.parsed)))]
    /\ UNCHANGED <<arg, called, mainVars>>

RoundTripNext == RoundTripParse \/ RoundTripFormat

SpecRoundTrip == InitRoundTrip /\ [][RoundTripNext]_vars

\* C13: for every zero-padded MM/DD/YYYY text s that denotes a calendar
\* date, parse_date(s) is a date and format_date of it is s again.
C13_FormatParseRoundTrip ==
    (called /\ DenotesDate(Get(arg.parts))) =>
        /\ IsSome(result.parsed)
        /\ result.formatted # None => Get(result.formatted) = arg.date_str

(***************************************************************************)
(* write_processed_copy on the TableData of a parsed file and any set of   *)
(* row numbers.                                                            *)
(***************************************************************************)
CopyRows ==
    {<<<<"a">>, <<"N">>, HW1, Tuesday, <<>>>>,
     <<<<"b">>, <<"N">>, HW1, Tuesday, <<"*">>>>,   \* already handled
     <<<<"a">>, <<"N">>, HW2, Sunday, <<"x">>>>,    \* another text in the marker cell
     <<<<"b">>, <<"N">>, HW2, Sunday>>,             \* shorter than the header
     <<<<>>, <<" ">>, <<>>, <<>>, <<>>>>}           \* a blank row

InitProcessedCopy ==
    /\ \E rows \in SeqsUpTo(CopyRows, MaxRows),
          processed_rows \in SUBSET (2..(MaxRows + 2)),
          dry_run \in BOOLEAN :
          arg = [lines |-> <<MarkedHeader>> \o rows,
                 table_data |-> process_extension_data(<<MarkedHeader>> \o rows,
                                                       DEFAULT_COLUMNS).table_data,
                 processed_rows |-> processed_rows,
                 dry_run |-> dry_run]
    /\ result = None
    /\ called = FALSE
    /\ MainIdle

\* the call, where the copy can be written and where it cannot
CallWriteProcessedCopy ==
    /\ ~called
    /\ \E write_ok \in BOOLEAN :
          /\ write_ok \/ ~arg.dry_run
          /\ result' = Some([out |-> write_processed_copy(TRUE, arg.table_data,
                                         arg.processed_rows, arg.dry_run, write_ok),
                             write_ok |-> write_ok])
    /\ called' = TRUE
    /\ UNCHANGED <<arg, mainVars>>

SpecProcessedCopy == InitProcessedCopy /\ [][CallWriteProcessedCopy]_vars

\* the index of the marker cell in a line of the copy
CopyDoneIndex == Get(arg.table_data).col_map[DEFAULT_COLUMNS.done] + 1

\* C20: the processed copy is the header of the input as it was, then every
\* retained row in the order of the input; the marker cell of a row whose
\* number is in the set is '*', and every other cell, the marker cell of the
\* rows outside the set included, is the cell of the retained row.
C20_CopyMarksOnlyGivenRows ==
    (called /\ IsSome(Get(result).out.contents)) =>
        LET copy == Get(Get(result).out.contents)
            rows == Get(arg.table_data).rows
        IN  /\ Len(copy) = 1 + Len(rows)
            /\ copy[1] = Head(arg.lines)
            /\ \A i, j \in 1..Len(rows) : i < j => rows[i].row_num < rows[j].row_num
            /\ \A i \in 1..Len(rows) :
                  /\ Len(copy[i + 1]) = Len(rows[i].fields)
                  /\ \A k \in 1..Len(rows[i].fields) :
                        copy[i + 1][k] =
                            IF k = CopyDoneIndex /\ rows[i].row_num \in arg.processed_rows
                            THEN <<"*">>
                            ELSE rows[i].fields[k]

\* a copy with a row that was marked, and a row outside the set that kept
\* the text of its marker cell
C20_Witness ==
    /\ called /\ IsSome(Get(result).out.contents)
    /\ \E r \in Range(Get(arg.table_data).rows) :
          r.row_num \in arg.processed_rows /\ r.fields[CopyDoneIndex] = <<>>
    /\ \E i \in 1..Len(Get(arg.table_data).rows) :
          /\ Get(arg.table_data).rows[i].row_num \notin arg.processed_rows
          /\ Get(Get(result).out.contents)[i + 1][CopyDoneIndex] = <<"x">>

(***************************************************************************)
(* deduplicate_records and adjust_dates on objects.  A list holds          *)
(* references; the heap is the list of the objects made so far, and a      *)
(* reference is an index of it.  The caller keeps its list and looks at it *)
(* and at its records after the call.                                      *)
(***************************************************************************)
\* ExtensionRecord(...): a new object
NewRecord(heap, record) == [heap |-> Append(heap, record), ref |-> Len(heap) + 1]

\* a method that sets the dates of the record it was called on
with_adjusted_date_in_place(heap, self, adjusted) ==
    [heap |-> [heap EXCEPT ![self] = with_adjusted_date(heap[self], adjusted)],
     ref |-> self]

\* record.with_adjusted_date(adjusted), lines 109-119
with_adjusted_date_of(heap, self, adjusted) ==
    NewRecord(heap, with_adjusted_date(heap[self], adjusted))

\* the loop of adjust_dates, lines 447-450
RECURSIVE AdjustLoop(_, _, _)
AdjustLoop(heap, result_list, rest) ==
    IF rest = <<>> THEN [heap |-> heap, returned |-> result_list]
    ELSE LET made == with_adjusted_date_of(heap, Head(rest),
                         get_next_sunday(heap[Head(rest)].requested_date))
         IN  AdjustLoop(made.heap, Append(result_list, made.ref), Tail(rest))

adjust_dates_of(heap, refs) == AdjustLoop(heap, <<>>, refs)

\* one turn of the loop of deduplicate_records, lines 425-433: the dict
\* holds references to the records of the input
DedupRefStep(heap, dedup, ref) ==
    LET same == {k \in 1..Len(dedup) : Key(heap[dedup[k]]) = Key(heap[ref])}
    IN  IF same = {} THEN Append(dedup, ref)
        ELSE IF DateLT(heap[dedup[CHOOSE k \in same : TRUE]].requested_date,
                       heap[ref].requested_date)
        THEN [k \in 1..Len(dedup) |-> IF k \in same THEN ref ELSE dedup[k]]
        ELSE dedup

RECURSIVE DedupRefLoop(_, _, _)
DedupRefLoop(heap, dedup, rest) ==
    IF rest = <<>> THEN dedup
    ELSE DedupRefLoop(heap, DedupRefStep(heap, dedup, Head(rest)), Tail(rest))

deduplicate_records_of(heap, refs) ==
    [heap |-> heap, returned |-> DedupRefLoop(heap, <<>>, refs)]

ObjectEmails == {<<"a">>, <<"b">>}

ObjectDates ==
    {[year |-> 2024, month |-> 1, day |-> 30],      \* a Tuesday
     [year |-> 2024, month |-> 2, day |-> 4],       \* a Sunday
     [year |-> 2024, month |-> 2, day |-> 5],       \* a Monday
     [year |-> 9999, month |-> 12, day |-> 30]}     \* no Sunday follows

ObjectChoices == [email : ObjectEmails, assignment : {HW1}, date : ObjectDates]

InitObjects ==
    /\ \E choices \in SeqsUpTo(ObjectChoices, MaxRecords) :
          arg = [heap |-> RecordsOf(choices),
                 records |-> [i \in 1..Len(choices) |-> i]]
    /\ result = None
    /\ called = FALSE
    /\ MainIdle

\* deduplicate_records(records)
CallDeduplicateOnObjects ==
    /\ ~called
    /\ result' = Some([function |-> "deduplicate_records",
                       out |-> deduplicate_records_of(arg.heap, arg.records),
                       records |-> arg.records])
    /\ called' = TRUE
    /\ UNCHANGED <<arg, mainVars>>

\* adjust_dates(records), where get_next_sunday raises for no record
CallAdjustDatesOnObjects ==
    /\ ~called
    /\ \A i \in 1..Len(arg.records) :
          ~get_next_sunday_raises(arg.heap[arg.records[i]].requested_date)
    /\ result' = Some([function |-> "adjust_dates",
                       out |-> adjust_dates_of(arg.heap, arg.records),
                       records |-> arg.records])
    /\ called' = TRUE
    /\ UNCHANGED <<arg, mainVars>>

\* adjust_dates(records), where get_next_sunday raises OverflowError: the
\* records before the one it raises for were adjusted, nothing is returned
CallAdjustDatesRaising ==
    /\ ~called
    /\ \E i \in 1..Len(arg.records) :
          /\ get_next_sunday_raises(arg.heap[arg.records[i]].requested_date)
          /\ \A j \in 1..(i - 1) :
                ~get_next_sunday_raises(arg.heap[arg.records[j]].requested_date)
          /\ result' = Some([function |-> "adjust_dates raised",
                             out |-> [heap |-> adjust_dates_of(arg.heap,
                                                   SubSeq(arg.records, 1, i - 1)).heap,
                                      returned |-> <<>>],
                             records |-> arg.records])
    /\ called' = TRUE
    /\ UNCHANGED <<arg, mainVars>>

ObjectsNext ==
    \/ CallDeduplicateOnObjects
    \/ CallAdjustDatesOnObjects
    \/ CallAdjustDatesRaising

SpecObjects == InitObjects /\ [][ObjectsNext]_vars

\* C21: after deduplicate_records and after adjust_dates the caller's list
\* has the records it had, in the same order, and every one of these records
\* has the field values it had; due_date and original_date of an input
\* record of adjust_dates are still unset.
C21_InputNotMutated ==
    called =>
        /\ Get(result).records = arg.records
        /\ \A i \in 1..Len(arg.records) :
              /\ Get(result).out.heap[arg.records[i]] = arg.heap[arg.records[i]]
              /\ Get(result).out.heap[arg.records[i]].due_date = None
              /\ Get(result).out.heap[arg.records[i]].original_date = None

\* adjust_dates moved the date of a record, and the input has no date set
C21_Witness ==
    /\ called
    /\ Get(result).function = "adjust_dates"
    /\ Len(arg.records) = 2
    /\ \E r \in Range(Get(result).out.returned) :
          DateLT(arg.heap[1].requested_date, Get(Get(result).out.heap[r].due_date))
    /\ Get(result).out.heap[1].due_date = None

\* C22: adjust_dates returns one new record per input record, in the order
\* of the input; each has the email, name, assignment, requested_date and
\* row number of its input record, original_date equal to that
\* requested_date and due_date equal to get_next_sunday of it.
C22_AdjustDatesMapsEachRecord ==
    (called /\ Get(result).function = "adjust_dates") =>
        LET out == Get(result).out
        IN  /\ Len(out.returned) = Len(arg.records)
            /\ \A i, j \in 1..Len(out.returned) :
                  i # j => out.returned[i] # out.returned[j]
            /\ \A i \in 1..Len(out.returned) :
                  LET new == out.heap[out.returned[i]]
                      old == arg.heap[arg.records[i]]
                  IN  /\ out.returned[i] \notin Range(arg.records)
                      /\ new.email = old.email
                      /\ new.name = old.name
                      /\ new.assignment = old.assignment
                      /\ new.requested_date = old.requested_date
                      /\ new.row_num = old.row_num
                      /\ new.original_date = Some(old.requested_date)
                      /\ new.due_date = Some(get_next_sunday(old.requested_date))

\* three records were adjusted: a Tuesday, a Sunday and a Monday
C22_Witness ==
    /\ called /\ Get(result).function = "adjust_dates"
    /\ Len(Get(result).out.returned) = 3
    /\ {weekday(arg.heap[r].requested_date) : r \in Range(arg.records)} = {0, 1, 6}
    /\ \E r \in Range(Get(result).out.returned) :
          Get(result).out.heap[r].original_date # Get(result).out.heap[r].due_date

(***************************************************************************)
(* sanitize_filename on names of letters in both cases, digits, spaces,    *)
(* hyphens and underscores.                                                *)
(***************************************************************************)
MaxName == 4

NameChars == {"A", "h", "1", " ", "-", "_"}

InitSanitize ==
    /\ arg \in SeqsUpTo(NameChars, MaxName)
    /\ result = [once |-> None, twice |-> None, filename |-> None]
    /\ called = FALSE
    /\ MainIdle

\* sanitize_filename(assignment), and the file name lines 516-517 make of it
CallSanitize ==
    /\ ~called
    /\ result' = [result EXCEPT !.once = Some(sanitize_filename(arg)),
                                !.filename = Some(OutputFilename(arg))]
    /\ called' = TRUE
    /\ UNCHANGED <<arg, mainVars>>

\* sanitize_filename of what sanitize_filename returned
CallSanitizeAgain ==
    /\ called
    /\ result.twice = None
    /\ result' = [result EXCEPT !.twice = Some(sanitize_filename(Get(result.once)))]
    /\ UNCHANGED <<arg, called, mainVars>>

SanitizeNext == CallSanitize \/ CallSanitizeAgain

SpecSanitize == InitSanitize /\ [][SanitizeNext]_vars

\* the maximal runs of a-z and 0-9 of a text, in order
RECURSIVE WordsOf(_, _)
WordsOf(s, word) ==
    IF s = <<>> THEN (IF word = <<>> THEN <<>> ELSE <<word>>)
    ELSE IF Head(s) \in FilenameChars THEN WordsOf(Tail(s), Append(word, Head(s)))
    ELSE (IF word = <<>> THEN <<>> ELSE <<word>>) \o WordsOf(Tail(s), <<>>)

\* the words with one underscore between two of them
RECURSIVE JoinWords(_)
JoinWords(words) ==
    IF words = <<>> THEN <<>>
    ELSE IF Len(words) = 1 THEN words[1]
    ELSE words[1] \o <<"_">> \o JoinWords(Tail(words))

\* C23: sanitize_filename gives the runs of a-z and 0-9 of the lower-cased
\* text with one underscore between two runs: only a-z, 0-9 and '_', no '_'
\* first or last, no two '_' in a row; sanitising the result again gives the
\* result; the file name is the result followed by '_extensions.csv'.
C23_SanitizeFilename ==
    called =>
        LET once == Get(result.once)
        IN  /\ once = JoinWords(WordsOf([i \in 1..Len(arg) |-> Lower(arg[i])], <<>>))
            /\ \A i \in 1..Len(once) : once[i] \in FilenameChars \cup {"_"}
            /\ once # <<>> => (once[1] # "_" /\ once[Len(once)] # "_")
            /\ \A i \in 1..(Len(once) - 1) : ~(once[i] = "_" /\ once[i + 1] = "_")
            /\ result.twice # None => Get(result.twice) = once
            /\ result.filename = Some(once \o <<"_extensions.csv">>)

\* a name in upper case with a run of two other characters inside and an
\* underscore at its end, sanitised twice
C23_Witness ==
    /\ called /\ result.twice # None
    /\ arg = <<"A", " ", "-", "_">> \/ arg = <<"A", "-", "_", "1">>
    /\ Get(result.once) \in {<<"a">>, <<"a", "_", "1">>}

(***************************************************************************)
(* A run of main() on a file with a DONE? column, and after it a run on    *)
(* the processed copy the first run wrote.  `result` keeps what the first  *)
(* run ended with, `called` says that the second run has begun.            *)
(***************************************************************************)
Monday == <<"0", "2", "/", "0", "5", "/", "2", "0", "2", "4">>

RerunRows ==
    {<<<<"a">>, <<"N">>, HW1, Tuesday, <<>>>>,
     <<<<"a">>, <<"N">>, HW1, Monday, <<>>>>,       \* the same pair, a later date
     <<<<"b">>, <<"N">>, HW1, Tuesday, <<"*">>>>,   \* already handled
     <<<<"a">>, <<"N">>, HW2, Month13, <<>>>>}      \* no such date

InitRerun ==
    /\ arg = None /\ result = None /\ called = FALSE
    /\ pc = "start"
    /\ args = [input_file |-> TRUE, dry_run |-> FALSE, no_adjust |-> FALSE]
    /\ \E rows \in SeqsUpTo(RerunRows, MaxRows) :
          file_lines = Some(<<MarkedHeader>> \o rows)
    /\ parsed_records = <<>>
    /\ records = <<>>
    /\ errors = <<>>
    /\ table_data = None
    /\ file_info = <<>>
    /\ io_errors = <<>>
    /\ processed_copy = [path |-> None, error |-> None]
    /\ failures_path = None
    /\ summary_text = None
    /\ exit_code = None
    /\ fs = [dir |-> FALSE, csv |-> <<>>, writes |-> <<>>, processed |-> None,
             failures |-> None, summary |-> None]
    /\ faults = {}

\* the lines read_from_file makes of the processed copy: the copy was written
\* as utf-8-sig and is read as utf-8, so its first cell begins with the
\* byte-order mark (lines 625 and 803)
ReadBack(copy) == [copy EXCEPT ![1][1] = <<BOM>> \o @]

\* main() is started again, with the processed copy as its --input-file
Rerun ==
    /\ pc = "done"
    /\ ~called
    /\ IsSome(processed_copy.path) /\ IsSome(fs.processed)
    /\ called' = TRUE
    /\ result' = Some([records |-> records, errors |-> errors, exit_code |-> exit_code])
    /\ file_lines' = Some(ReadBack(Get(fs.processed)))
    /\ pc' = "start"
    /\ parsed_records' = <<>>
    /\ records' = <<>>
    /\ errors' = <<>>
    /\ table_data' = None
    /\ file_info' = <<>>
    /\ io_errors' = <<>>
    /\ processed_copy' = [path |-> None, error |-> None]
    /\ failures_path' = None
    /\ summary_text' = None
    /\ exit_code' = None
    /\ faults' = {}
    /\ UNCHANGED <<arg, args, fs>>

RerunNext ==
    \/ ReadInput
    \/ ProcessInput
    \/ Deduplicate
    \/ AdjustDates
    \/ CreateOutputFiles
    \/ WriteProcessedCopy
    \/ WriteFailureReport
    \/ GenerateSummary
    \/ Exit
    \/ Rerun

SpecRerun == InitRerun /\ [][RerunNext]_vars

\* C25: when the first run rejected no row, wrote its processed copy and
\* exited with 0, the second run, on that copy, makes no record of any row,
\* and so gives no (assignment, email) pair a due date other than the one
\* the first run gave it.
C25_RerunFindsNothing ==
    (/\ called
     /\ Get(result).errors = <<>>
     /\ Get(result).exit_code = Some(0)
     /\ pc \notin {"start", "process"}) =>
        /\ parsed_records = <<>>
        /\ \A r \in Range(records) : \A q \in Range(Get(result).records) :
              (Key(r) = Key(q) /\ IsSome(r.due_date)) => r.due_date = q.due_date

(***************************************************************************)
(* process_extension_data under the default column configuration and       *)
(* under one that renames the marker column, and write_processed_copy on   *)
(* the TableData it returned.                                              *)
(***************************************************************************)
RenamedColumns == [DEFAULT_COLUMNS EXCEPT !.done = <<"Handled">>]

\* a header whose marker column has the new name, and one with a column of
\* either name
RenamedHeader == SubSeq(MarkedHeader, 1, 4) \o <<RenamedColumns.done>>
BothHeader == SubSeq(MarkedHeader, 1, 4) \o <<RenamedColumns.done, DEFAULT_COLUMNS.done>>

InitParse ==
    /\ \E header \in {MarkedHeader, RenamedHeader, BothHeader},
          rows \in SeqsUpTo(DataRows, MaxRows),
          columns \in {DEFAULT_COLUMNS, RenamedColumns} :
          arg = [data_lines |-> <<header>> \o rows, columns |-> columns]
    /\ result = None
    /\ called = FALSE
    /\ MainIdle

\* process_extension_data(data_lines, columns)
CallProcessExtensionData ==
    /\ ~called
    /\ result' = Some([out |-> process_extension_data(arg.data_lines, arg.columns),
                       copy |-> None])
    /\ called' = TRUE
    /\ UNCHANGED <<arg, mainVars>>

\* write_processed_copy on the TableData, with the rows that gave a record
CallCopyOfParsed ==
    /\ called
    /\ Get(result).copy = None
    /\ result' = Some([Get(result) EXCEPT !.copy =
          Some(write_processed_copy(TRUE, Get(result).out.table_data,
                   {Get(result).out.records[i].row_num :
                        i \in 1..Len(Get(result).out.records)},
                   FALSE, TRUE))])
    /\ UNCHANGED <<arg, called, mainVars>>

ParseNext == CallProcessExtensionData \/ CallCopyOfParsed

SpecParse == InitParse /\ [][ParseNext]_vars

\* the rows the TableData retained
RetainedRows == Get(Get(result).out.table_data).rows

\* the 0-based index of the marker column the parser consulted, or None
ConsultedColumn ==
    LET col_map == Get(Get(result).out.table_data).col_map
    IN  IF arg.columns.done \in DOMAIN col_map THEN Some(col_map[arg.columns.done])
        ELSE None

\* the retained row is marked as already handled in the column consulted
HandledRow(row) ==
    /\ IsSome(ConsultedColumn)
    /\ strip(row.fields[Get(ConsultedColumn) + 1]) = <<"*">>

RecordIndexes(row_num) ==
    {k \in 1..Len(Get(result).out.records) : Get(result).out.records[k].row_num = row_num}

ErrorIndexes(row_num) ==
    {k \in 1..Len(Get(result).out.errors) : Get(result).out.errors[k].row = Some(row_num)}

\* C26: after process_extension_data on a valid header every retained row is
\* of exactly one class: handled (no record, no error), one record (no
\* error), or one error (no record); so records plus errors plus handled
\* rows number the retained rows, and every record and every error carries
\* the number of a retained row, no two of them the same.
C26_RowsPartitioned ==
    (called /\ IsSome(Get(result).out.table_data)) =>
        LET out == Get(result).out
            handled == {i \in 1..Len(RetainedRows) : HandledRow(RetainedRows[i])}
            numbers == {RetainedRows[i].row_num : i \in 1..Len(RetainedRows)}
        IN  /\ Cardinality(numbers) = Len(RetainedRows)
            /\ \A i \in 1..Len(RetainedRows) :
                  LET n == RetainedRows[i].row_num
                  IN  IF i \in handled
                      THEN RecordIndexes(n) = {} /\ ErrorIndexes(n) = {}
                      ELSE Cardinality(RecordIndexes(n)) + Cardinality(ErrorIndexes(n)) = 1
            /\ Len(out.records) + Len(out.errors) + Cardinality(handled) = Len(RetainedRows)
            /\ \A k \in 1..Len(out.records) : out.records[k].row_num \in numbers
            /\ \A k \in 1..Len(out.errors) :
                  IsSome(out.errors[k].row) /\ Get(out.errors[k].row) \in numbers

\* a file of a row that gave a record and a row whose date does not exist
C26_Witness ==
    /\ called /\ IsSome(Get(result).out.table_data)
    /\ Len(RetainedRows) = 2
    /\ Len(Get(result).out.records) = 1
    /\ \E k \in 1..Len(Get(result).out.errors) :
          Get(result).out.errors[k].message.kind = "Invalid date format"

\* C27: whenever the parser found the marker column of its configuration in
\* the header, write_processed_copy on the TableData does not fail for want
\* of a marker column, and the column it marks is the one the parser
\* consulted.
C27_CopyMarksConsultedColumn ==
    (/\ called
     /\ Get(result).copy # None
     /\ IsSome(Get(result).out.table_data)
     /\ IsSome(ConsultedColumn)) =>
        LET copy == Get(Get(result).copy)
        IN  /\ copy.error # Some("Input file does not include a 'DONE?' column")
            /\ IsSome(copy.contents) =>
                  \A i \in 1..Len(RetainedRows) :
                      RecordIndexes(RetainedRows[i].row_num) # {} =>
                          Get(copy.contents)[i + 1][Get(ConsultedColumn) + 1] = <<"*">>

====
